---------------------------- MODULE Spec2Model ----------------------------
(***************************************************************************)
(* A model of pqxx::connection_base (src/src/connection_base.cxx): the     *)
(* logical connection that survives the loss of its physical libpq handle. *)
(*                                                                         *)
(* Every member function is an operator from a connection record to a      *)
(* connection record, so that a function which calls another (Exec calls   *)
(* activate, Reset and get_notifs; Reset calls SetupState or activate) is  *)
(* modelled whole.  A C++ exception is the field exc of the record: a      *)
(* statement after a throwing call is skipped, a catch clause tests exc.   *)
(* What libpq, the server and the connection policy answer is not decided  *)
(* by this code; each such call takes its outcome from the field oracle, a *)
(* finite sequence chosen by the action, followed by "ok" for ever.        *)
(***************************************************************************)
EXTENDS Integers, Sequences, FiniteSets, TLC

----------------------------------------------------------------------------
(* Bounds of the model *)

MaxDebt == 2        \* largest value of the reactivation avoidance counter
MaxOracle == 3      \* longest explicit prefix of environment outcomes
MaxRetries == 2     \* largest Retries argument of Exec
MaxReceivers == 2   \* most entries of m_receivers
MaxNotifs == 1      \* most notifications queued in libpq
MaxBurst == 2       \* most notifications queued where several are dispatched at once
MaxHandlers == 2    \* most error handlers registered at a time
MaxCopyLines == 2   \* most lines written in one COPY session
MaxNoticeLen == 2000 \* longest notice, in bytes before its newline
MaxConnectFaults == 1 \* longest prefix of outcomes for a reconnect among recording calls
MaxListenFaults == 2 \* longest prefix of outcomes for receiver and variable calls

----------------------------------------------------------------------------
(* Values *)

\* What a libpq call, the server or the policy can answer.
\*   "ok"     the call succeeds
\*   "reject" the server answers with an error and the transport stays healthy
\*            (for a handshake: the server is older than the supported floor)
\*   "drop"   the transport is lost during the call
Outcomes == {"ok", "reject", "drop"}

RECURSIVE SeqsUpTo(_, _)
SeqsUpTo(S, n) ==
  IF n = 0 THEN {<<>>}
  ELSE LET shorter == SeqsUpTo(S, n - 1)
       IN  shorter \cup {Append(q, x) : q \in {t \in shorter : Len(t) = n - 1}, x \in S}

Oracles == SeqsUpTo(Outcomes, MaxOracle)
ListenOracles == SeqsUpTo(Outcomes, MaxListenFaults)
ConnectOracles == SeqsUpTo(Outcomes, MaxConnectFaults)

\* m_Conn: no handle, a handle whose PQstatus is CONNECTION_OK, one whose
\* PQstatus is CONNECTION_BAD, and a healthy handle to a server that
\* read_capabilities refuses (PQserverVersion <= 90000).
NoConn == "NULL"
ConnOk == "OK"
ConnBad == "BAD"
ConnOld == "OLD"

NoExc == "none"

\* std::less<std::string> on the strings the model uses.
StrRank(str) ==
  CASE str = ""  -> 0
    [] str = "a" -> 1
    [] str = "b" -> 2
    [] str = "p" -> 3
    [] str = "x" -> 4
    [] str = "y" -> 5
    [] OTHER     -> 6

\* notification_receiver objects and the channel() of each.
Listeners == {"L1", "L2", "L3"}
channel(T) ==
  CASE T = "L1" -> "a"
    [] T = "L2" -> "a"
    [] OTHER    -> ""
Channels == {channel(T) : T \in Listeners}

VarNames == {"x", "y"}
VarValues == {"1", "2"}

StmtNames == {"", "p"}
Definitions == {"d1", "d2"}

Queries == {"q"}

\* The capabilities read_capabilities switches on.
AllCaps ==
  {"cap_prepared_statements", "cap_statement_varargs",
   "cap_prepare_unnamed_statement", "cap_cursor_scroll",
   "cap_cursor_with_hold", "cap_cursor_fetch_0", "cap_nested_transactions",
   "cap_create_table_with_oids", "cap_read_only_transactions",
   "cap_notify_payload", "cap_table_column", "cap_parameterized_statements"}

\* No reactivation_avoidance_exemption is in scope.
NoExemption == [active |-> FALSE, m_count |-> 0, m_open |-> FALSE]

Handlers == {"h1", "h2"}

\* Texts are sequences of characters; NL is the newline character and NUL
\* the character that ends a C string.
NL == "\n"
NUL == "\\0"
Texts == {<<>>, <<"a">>, <<"a", "b">>}

\* No COPY in progress and an empty table.  mode is "idle", "in" or "out";
\* data is what a COPY FROM STDIN has received; out is the rows a COPY TO
\* STDOUT has still to send; table is the rows stored.  written, source and
\* got remember what the application passed to WriteCopyLine in the write
\* session, what it had passed in the session that filled the table, and
\* what ReadCopyLine handed back in the read session.
NoCopy ==
  [mode |-> "idle", data |-> <<>>, out |-> <<>>, table |-> <<>>,
   written |-> <<>>, source |-> <<>>, got |-> <<>>]

EmptyMap == [k \in {} |-> ""]

----------------------------------------------------------------------------
(* State *)

VARIABLES
  m_Conn,                   \* the physical handle
  m_Completed,              \* connection completed
  m_inhibit_reactivation,   \* set by simulate_failure
  m_reactivation_avoidance, \* the avoidance debt counter
  m_caps,                   \* capability set
  m_Trans,                  \* a transaction is registered
  m_Vars,                   \* shadow session variables, name -> value
  m_receivers,              \* multimap channel -> receiver, as its sorted sequence
  m_prepared,               \* name -> [definition, registered]
  srvListen,                \* channels the server session behind m_Conn listens on
  srvPrepared,              \* statements the server session behind m_Conn holds
  notifs,                   \* notifications libpq holds for PQnotifies
  m_errorhandlers,          \* the registered error handlers, oldest first
  exemption,                \* the reactivation_avoidance_exemption in scope, if any
  srvCopy,                  \* the COPY stream of the server session, and its table
  op,                       \* the member function called last, with its arguments
  log,                      \* what that call asked of libpq and of receivers, in order
  exc                       \* the exception that call left with, or NoExc

vars ==
  <<m_Conn, m_Completed, m_inhibit_reactivation, m_reactivation_avoidance,
    m_caps, m_Trans, m_Vars, m_receivers, m_prepared, srvListen, srvPrepared,
    notifs, m_errorhandlers, exemption, srvCopy, op, log, exc>>

\* The connection as one record, at the entry of a member function.
Self(oracle) ==
  [m_Conn |-> m_Conn, m_Completed |-> m_Completed,
   m_inhibit_reactivation |-> m_inhibit_reactivation,
   m_reactivation_avoidance |-> m_reactivation_avoidance,
   m_caps |-> m_caps, m_Trans |-> m_Trans, m_Vars |-> m_Vars,
   m_receivers |-> m_receivers, m_prepared |-> m_prepared,
   srvListen |-> srvListen, srvPrepared |-> srvPrepared, notifs |-> notifs,
   m_errorhandlers |-> m_errorhandlers, exemption |-> exemption,
   srvCopy |-> srvCopy,
   oracle |-> oracle, ret |-> "null", Buf |-> <<>>, log |-> <<>>, exc |-> NoExc]

OpRec(name, a, b, n) == [name |-> name, a |-> a, b |-> b, n |-> n]

\* The state a member function leaves behind.
Return(s, call) ==
  /\ m_Conn' = s.m_Conn
  /\ m_Completed' = s.m_Completed
  /\ m_inhibit_reactivation' = s.m_inhibit_reactivation
  /\ m_reactivation_avoidance' = s.m_reactivation_avoidance
  /\ m_caps' = s.m_caps
  /\ m_Trans' = s.m_Trans
  /\ m_Vars' = s.m_Vars
  /\ m_receivers' = s.m_receivers
  /\ m_prepared' = s.m_prepared
  /\ srvListen' = s.srvListen
  /\ srvPrepared' = s.srvPrepared
  /\ notifs' = s.notifs
  /\ m_errorhandlers' = s.m_errorhandlers
  /\ exemption' = s.exemption
  /\ srvCopy' = s.srvCopy
  /\ op' = call
  /\ log' = s.log
  /\ exc' = s.exc

Throw(s, e) == [s EXCEPT !.exc = e]

Status(s) == IF s.m_Conn \in {ConnOk, ConnOld} THEN "CONNECTION_OK" ELSE "CONNECTION_BAD"

is_open(s) == s.m_Conn # NoConn /\ s.m_Completed /\ Status(s) = "CONNECTION_OK"

\* One entry of the log: a call (of a libpq or policy primitive, of a
\* receiver, of Reset from Exec) with the statements it carries, what it
\* handed back where that matters, and is_open() as the call was logged.
Ev(ev, q, ret, open) == [ev |-> ev, q |-> q, ret |-> ret, open |-> open]
Logged(s, ev, q) == [s EXCEPT !.log = Append(@, Ev(ev, q, "", is_open(s)))]
\* The same for a call that has handed back s.ret.
LoggedResult(s, ev, q) == [s EXCEPT !.log = Append(@, Ev(ev, q, s.ret, is_open(s)))]

Stmt(kind, arg, val) == <<kind, arg, val>>

\* The next answer of the environment, and the record with it consumed.
Answer(s) == IF s.oracle = <<>> THEN "ok" ELSE Head(s.oracle)
Consumed(s) == IF s.oracle = <<>> THEN s ELSE [s EXCEPT !.oracle = Tail(@)]

----------------------------------------------------------------------------
(* Sequencing *)

\* F applied to the value of v: "auto x = v; return F(x);".
Bind(v, F(_)) == CHOOSE r \in {F(x) : x \in {v}} : TRUE

\* The same, unless v has thrown: the exception passes through.
Try(v, F(_)) == Bind(v, LAMBDA x : IF x.exc # NoExc THEN x ELSE F(x))

----------------------------------------------------------------------------
(* libpq, the server and the connection policy *)

\* The server session behind the handle is gone: with it its subscriptions
\* and its prepared statements.
SessionLost(s) ==
  [s EXCEPT !.srvListen = {}, !.srvPrepared = {},
            !.srvCopy.mode = "idle", !.srvCopy.data = <<>>, !.srvCopy.out = <<>>]

\* A handshake, by the policy or by PQreset: a new server session, or none.
NewSession(s) ==
  [SessionLost(Consumed(s)) EXCEPT
     !.notifs = <<>>,
     !.m_Conn = CASE Answer(s) = "ok" -> ConnOk
                  [] Answer(s) = "reject" -> ConnOld
                  [] OTHER -> ConnBad]

\* m_policy.do_startconnect and do_completeconnect: a handle that exists is
\* handed back as it is, otherwise a connection is attempted.
do_startconnect(s) ==
  IF s.m_Conn # NoConn
  THEN Logged(s, "do_startconnect", <<>>)
  ELSE NewSession(Logged(s, "do_startconnect", <<>>))

\* m_policy.do_disconnect: PQfinish; there is no handle afterwards.
do_disconnect(s) ==
  SessionLost([Logged(s, "do_disconnect", <<>>) EXCEPT !.m_Conn = NoConn, !.notifs = <<>>])

\* m_policy.do_dropconnect: gives up a connection attempt still in progress;
\* an established handle is handed back.
do_dropconnect(s) == Logged(s, "do_dropconnect", <<>>)

PQreset(s) == NewSession(Logged(s, "PQreset", <<>>))

\* What a statement the server accepted does to the server session.
ServerApply(s, stmt) ==
  CASE stmt[1] = "LISTEN"     -> [s EXCEPT !.srvListen = @ \cup {stmt[2]}]
    [] stmt[1] = "UNLISTEN"   -> [s EXCEPT !.srvListen = @ \ {stmt[2]}]
    [] stmt[1] = "PREPARE"    -> [s EXCEPT !.srvPrepared = @ \cup {stmt[2]}]
    [] stmt[1] = "DEALLOCATE" -> [s EXCEPT !.srvPrepared = @ \ {stmt[2]}]
    [] stmt[1] = "COPY" /\ stmt[2] = "FROM STDIN" ->
         [s EXCEPT !.srvCopy.mode = "in", !.srvCopy.data = <<>>,
                   !.srvCopy.written = <<>>]
    [] stmt[1] = "COPY" /\ stmt[2] = "TO STDOUT" ->
         [s EXCEPT !.srvCopy.mode = "out", !.srvCopy.out = s.srvCopy.table,
                   !.srvCopy.got = <<>>]
    [] OTHER                  -> s

RECURSIVE ServerApplyAll(_, _)
ServerApplyAll(s, batch) ==
  IF batch = <<>> THEN s ELSE ServerApplyAll(ServerApply(s, Head(batch)), Tail(batch))

\* Statements the server refuses whatever the state of the transport: the
\* execution or deallocation of a statement its session does not hold, and
\* the preparation of a named statement it holds already.
ServerRefuses(s, stmt) ==
  \/ stmt[1] \in {"EXECUTE", "DEALLOCATE"} /\ stmt[2] \notin s.srvPrepared
  \/ stmt[1] = "PREPARE" /\ stmt[2] # "" /\ stmt[2] \in s.srvPrepared
  \/ stmt[1] = "COPY" /\ s.srvCopy.mode # "idle"

\* One round trip carrying the statements of batch.  ret is the result handed
\* back: "ok", "error" (a result that reports a failed statement) or "null".
RoundTrip(s, batch) ==
  IF Status(s) # "CONNECTION_OK" THEN [s EXCEPT !.ret = "null"]
  ELSE CASE Answer(s) = "ok" ->
              IF \E i \in DOMAIN batch : ServerRefuses(s, batch[i])
              THEN [Consumed(s) EXCEPT !.ret = "error"]
              ELSE [ServerApplyAll(Consumed(s), batch) EXCEPT !.ret = "ok"]
         [] Answer(s) = "reject" -> [Consumed(s) EXCEPT !.ret = "error"]
         [] OTHER -> SessionLost([Consumed(s) EXCEPT !.m_Conn = ConnBad, !.ret = "null"])

PQexec(s, stmt) == LoggedResult(RoundTrip(s, <<stmt>>), "PQexec", <<stmt>>)

PQprepare(s, name, definition) ==
  LoggedResult(RoundTrip(s, <<Stmt("PREPARE", name, definition)>>),
               "PQprepare", <<Stmt("PREPARE", name, definition)>>)

PQexecPrepared(s, statement) ==
  LoggedResult(RoundTrip(s, <<Stmt("EXECUTE", statement, "")>>),
               "PQexecPrepared", <<Stmt("EXECUTE", statement, "")>>)

\* PQsendQuery followed by PQgetResult until it hands back null.
PQsendQuery(s, batch) == LoggedResult(RoundTrip(s, batch), "PQsendQuery", batch)

\* PQconsumeInput: false when the transport turns out to be lost.
PQconsumeInput(s) ==
  LoggedResult(
    IF Status(s) # "CONNECTION_OK" THEN [s EXCEPT !.ret = "null"]
    ELSE IF Answer(s) = "drop"
         THEN SessionLost([Consumed(s) EXCEPT !.m_Conn = ConnBad, !.ret = "null"])
         ELSE [Consumed(s) EXCEPT !.ret = "ok"],
    "PQconsumeInput", <<>>)

----------------------------------------------------------------------------
(* connection_base: connecting and disconnecting *)

clearcaps(s) == [s EXCEPT !.m_caps = {}]

disconnect(s) == do_disconnect(clearcaps(s))

\* The notice reaches the error handlers; which handlers there are is of no
\* consequence to the connection.
process_notice(s) == Logged(s, "process_notice", <<>>)

read_capabilities(s) ==
  IF s.m_Conn = ConnOld THEN Throw(s, "feature_not_supported")
  ELSE IF s.m_Conn = NoConn THEN Throw(s, "broken_connection")
  ELSE [s EXCEPT !.m_caps = AllCaps]

\* The loop over m_receivers in SetupState, from entry k on.
RECURSIVE RestoreListens(_, _, _)
RestoreListens(receivers, k, Last) ==
  IF k > Len(receivers) THEN <<>>
  ELSE IF receivers[k].first # Last
       THEN <<Stmt("LISTEN", receivers[k].first, "")>>
              \o RestoreListens(receivers, k + 1, receivers[k].first)
       ELSE RestoreListens(receivers, k + 1, Last)

\* The least of a set of strings.
MinStr(names) == CHOOSE x \in names : \A y \in names : StrRank(x) <= StrRank(y)

\* The loop over m_Vars in SetupState: a std::map, in the order of its keys.
RECURSIVE RestoreSets(_, _)
RestoreSets(Vars, names) ==
  IF names = {} THEN <<>>
  ELSE <<Stmt("SET", MinStr(names), Vars[MinStr(names)])>>
         \o RestoreSets(Vars, names \ {MinStr(names)})

restore_query(s) ==
  RestoreListens(s.m_receivers, 1, "") \o RestoreSets(s.m_Vars, DOMAIN s.m_Vars)

\* The registered flags survive SetupState.
ForgetRegistered_Keep(prepared) == prepared

ForgetRegistered(prepared) ==
  [n \in DOMAIN prepared |-> [prepared[n] EXCEPT !.registered = FALSE]]

\* The batch that restores receivers and variables, when there are any.
Restore(s) ==
  IF s.m_receivers # <<>> \/ DOMAIN s.m_Vars # {}
  THEN PQsendQuery(s, restore_query(s))
  ELSE s

SetupState(s) ==
  IF s.m_Conn = NoConn THEN Throw(s, "internal_error")
  ELSE IF Status(s) # "CONNECTION_OK" THEN Throw(do_disconnect(s), "failure")
  ELSE Try(read_capabilities(s), LAMBDA s1 :
       Bind(Restore([s1 EXCEPT !.m_prepared = ForgetRegistered(@)]), LAMBDA s2 :
       Bind([s2 EXCEPT !.m_Completed = TRUE], LAMBDA s3 :
       IF ~is_open(s3) THEN Throw(s3, "broken_connection") ELSE s3)))

\* The test of m_reactivation_avoidance in activate, and activate without it.
activate_avoided_Never(s) == FALSE

activate_avoided(s) == s.m_reactivation_avoidance # 0

\* The try block of activate.
activate_try(s) ==
  Bind([do_startconnect(s) EXCEPT !.m_Completed = TRUE], LAMBDA s1 :
  IF ~is_open(s1) THEN Throw(s1, "broken_connection") ELSE SetupState(s1))

\* activate whose second handler rethrows without retracting m_Completed.
activate_CompletedKept(s) ==
  IF is_open(s) THEN s
  ELSE IF s.m_inhibit_reactivation THEN Throw(s, "broken_connection")
  ELSE IF activate_avoided(s) THEN s
  ELSE Bind(activate_try(s), LAMBDA s2 :
       CASE s2.exc = NoExc -> s2
         [] s2.exc = "broken_connection" -> [disconnect(s2) EXCEPT !.m_Completed = FALSE]
         [] OTHER -> s2)

activate(s) ==
  IF is_open(s) THEN s
  ELSE IF s.m_inhibit_reactivation THEN Throw(s, "broken_connection")
  ELSE IF activate_avoided(s) THEN s
  ELSE Bind(activate_try(s), LAMBDA s2 :
       CASE s2.exc = NoExc -> s2
         [] s2.exc = "broken_connection" -> [disconnect(s2) EXCEPT !.m_Completed = FALSE]
         [] OTHER -> [s2 EXCEPT !.m_Completed = FALSE])

\* deactivate that drops the receivers with the handle.
deactivate_ClearsReceivers(s) ==
  IF s.m_Conn = NoConn THEN s
  ELSE IF s.m_Trans THEN Throw(s, "usage_error")
  ELSE IF s.m_reactivation_avoidance # 0 THEN process_notice(s)
  ELSE do_disconnect([s EXCEPT !.m_Completed = FALSE, !.m_receivers = <<>>])

deactivate(s) ==
  IF s.m_Conn = NoConn THEN s
  ELSE IF s.m_Trans THEN Throw(s, "usage_error")
  ELSE IF s.m_reactivation_avoidance # 0 THEN process_notice(s)
  ELSE do_disconnect([s EXCEPT !.m_Completed = FALSE])

simulate_failure(s) ==
  IF s.m_Conn # NoConn
  THEN [do_disconnect(s) EXCEPT !.m_inhibit_reactivation = TRUE]
  ELSE s

\* The test of m_reactivation_avoidance in Reset, and Reset without it.
Reset_avoided_Never(s) == FALSE

Reset_avoided(s) == s.m_reactivation_avoidance # 0

\* Reset that looks at the debt before it looks at the inhibition.
Reset_DebtFirst(s) ==
  IF Reset_avoided(s) THEN s
  ELSE IF s.m_inhibit_reactivation THEN Throw(s, "broken_connection")
  ELSE Bind([do_dropconnect(s) EXCEPT !.m_Completed = FALSE], LAMBDA s1 :
       IF s1.m_Conn # NoConn
       THEN Bind(PQreset(s1), LAMBDA s2 : SetupState(s2))
       ELSE activate(s1))

Reset(s) ==
  IF s.m_inhibit_reactivation THEN Throw(s, "broken_connection")
  ELSE IF Reset_avoided(s) THEN s
  ELSE Bind([do_dropconnect(s) EXCEPT !.m_Completed = FALSE], LAMBDA s1 :
       IF s1.m_Conn # NoConn
       THEN Bind(PQreset(s1), LAMBDA s2 : SetupState(s2))
       ELSE activate(s1))

add_reactivation_avoidance_count(s, n) ==
  [s EXCEPT !.m_reactivation_avoidance = @ + n]

RegisterTransaction(s) == [s EXCEPT !.m_Trans = TRUE]
UnregisterTransaction(s) == [s EXCEPT !.m_Trans = FALSE]

register_errorhandler(s, handler) ==
  [s EXCEPT !.m_errorhandlers = Append(@, handler)]

\* std::list::remove: every entry equal to handler goes.
unregister_errorhandler(s, handler) ==
  [s EXCEPT !.m_errorhandlers = SelectSeq(@, LAMBDA h : h # handler)]

\* The loop of close taken from begin to end.
RECURSIVE UnregisterAll_Forward(_, _)
UnregisterAll_Forward(s, old_handlers) ==
  IF old_handlers = <<>> THEN s
  ELSE UnregisterAll_Forward(Logged(s, "errorhandler::unregister",
                                    <<Stmt(Head(old_handlers), "", "")>>),
                             Tail(old_handlers))

\* The loop of close over old_handlers, from rbegin to rend: each handler
\* is told that it has no connection any more.
RECURSIVE UnregisterAll(_, _)
UnregisterAll(s, old_handlers) ==
  IF old_handlers = <<>> THEN s
  ELSE UnregisterAll(Logged(s, "errorhandler::unregister",
                            <<Stmt(old_handlers[Len(old_handlers)], "", "")>>),
                     SubSeq(old_handlers, 1, Len(old_handlers) - 1))

\* close catches whatever is thrown.
close(s) ==
  Bind([s EXCEPT !.m_Completed = FALSE, !.m_inhibit_reactivation = FALSE,
                 !.m_reactivation_avoidance = 0], LAMBDA s1 :
  Bind(IF s1.m_Trans THEN process_notice(s1) ELSE s1, LAMBDA s2 :
  Bind(IF s2.m_receivers # <<>>
       THEN [process_notice(s2) EXCEPT !.m_receivers = <<>>]
       ELSE s2, LAMBDA s3 :
  Bind(UnregisterAll([s3 EXCEPT !.m_errorhandlers = <<>>], s3.m_errorhandlers), LAMBDA s4 :
  do_disconnect(s4)))))

----------------------------------------------------------------------------
(* connection_base: statements and notifications *)

check_result(s, R) ==
  IF ~is_open(s) THEN Throw(s, "broken_connection")
  ELSE IF R = "null" THEN Throw(s, "failure")
  ELSE IF R = "error" THEN Throw(s, "sql_error")
  ELSE s

\* m_receivers.equal_range(ch): the entries of the channel, in their order.
equal_range(receivers, ch) == SelectSeq(receivers, LAMBDA e : e.first = ch)

\* One receiver is invoked and its exception is let through.
InvokeReceiver_Uncaught(s, e) ==
  IF Answer(s) = "reject"
  THEN Throw(LoggedResult([Consumed(s) EXCEPT !.ret = "throw"],
                          "receiver", <<Stmt(e.first, e.second, "")>>), "exception")
  ELSE LoggedResult([Consumed(s) EXCEPT !.ret = "ok"],
                    "receiver", <<Stmt(e.first, e.second, "")>>)

\* One receiver is invoked; when it throws (the environment answers
\* "reject") the exception is reported as a notice.
InvokeReceiver(s, e) ==
  IF Answer(s) = "reject"
  THEN process_notice(LoggedResult([Consumed(s) EXCEPT !.ret = "throw"],
                                   "receiver", <<Stmt(e.first, e.second, "")>>))
  ELSE LoggedResult([Consumed(s) EXCEPT !.ret = "ok"],
                    "receiver", <<Stmt(e.first, e.second, "")>>)

\* The inner loop of get_notifs, over the receivers of one notification.
RECURSIVE InvokeReceivers(_, _)
InvokeReceivers(s, Hit) ==
  IF Hit = <<>> THEN s
  ELSE Bind(InvokeReceiver(s, Head(Hit)), LAMBDA s1 : InvokeReceivers(s1, Tail(Hit)))

\* The outer loop of get_notifs, over what PQnotifies hands out.
RECURSIVE DispatchNotifs(_, _)
DispatchNotifs(s, N) ==
  IF N = <<>> THEN s
  ELSE Bind(InvokeReceivers(Logged(s, "PQnotifies", <<Stmt(Head(N), "", "")>>),
                            equal_range(s.m_receivers, Head(N))), LAMBDA s1 :
       DispatchNotifs(s1, Tail(N)))

\* The test of m_Trans in get_notifs, and get_notifs without it.
notifs_deferred_Never(s) == FALSE

notifs_deferred(s) == s.m_Trans

get_notifs(s) ==
  IF ~is_open(s) THEN s
  ELSE Bind(PQconsumeInput(s), LAMBDA s1 :
       IF s1.ret = "null" THEN Throw(s1, "broken_connection")
       ELSE IF notifs_deferred(s1) THEN s1
       ELSE [DispatchNotifs(s1, s1.notifs) EXCEPT !.notifs = <<>>])

\* The condition of the retry loop of Exec, R being the result held; the
\* same retrying after any failure; and the same with one retry too many.
ShouldRetry_AnyFailure(s, R, Retries) == Retries > 0 /\ R # "ok"

ShouldRetry_OneMore(s, R, Retries) == Retries >= 0 /\ R = "null" /\ ~is_open(s)

ShouldRetry(s, R, Retries) == Retries > 0 /\ R = "null" /\ ~is_open(s)

\* The retry loop of Exec.  s.ret is the result R that Exec holds.
RECURSIVE ExecRetry(_, _, _)
ExecRetry(s, Query, Retries) ==
  IF ~ShouldRetry(s, s.ret, Retries) THEN s
  ELSE Try([Reset(Logged(s, "Reset", <<>>)) EXCEPT !.ret = s.ret], LAMBDA s1 :
       Bind(IF is_open(s1) THEN PQexec(s1, Query) ELSE s1, LAMBDA s2 :
       ExecRetry(s2, Query, Retries - 1)))

Exec(s, Query, Retries) ==
  Try(activate(s), LAMBDA s1 :
  Bind(PQexec(s1, Query), LAMBDA s2 :
  Try(ExecRetry(s2, Query, Retries), LAMBDA s3 :
  Try(check_result(s3, s3.ret), LAMBDA s4 :
  [get_notifs(s4) EXCEPT !.ret = s3.ret]))))

----------------------------------------------------------------------------
(* connection_base: prepared statements *)

prepared_def(definition) == [definition |-> definition, registered |-> FALSE]

\* m_prepared with the entry of name erased.
Erased(prepared, name) == [n \in DOMAIN prepared \ {name} |-> prepared[n]]

\* m_prepared, or m_Vars, with an entry for name inserted or assigned.
Assigned(map, name, val) ==
  [n \in DOMAIN map \cup {name} |-> IF n = name THEN val ELSE map[n]]

\* What prepare does to a declared statement whose definition is the one
\* given: nothing.  Before it, the same with the registered flag cleared.
same_definition_Reregisters(s, name) ==
  [s EXCEPT !.m_prepared[name].registered = FALSE]

same_definition(s, name) == s

\* prepare that redefines a named statement as it does the anonymous one.
prepare_AnyRedefinition(s, name, definition) ==
  IF name \in DOMAIN s.m_prepared
  THEN IF definition # s.m_prepared[name].definition
       THEN [s EXCEPT !.m_prepared[name] = prepared_def(definition)]
       ELSE s
  ELSE [s EXCEPT !.m_prepared = Assigned(@, name, prepared_def(definition))]

prepare(s, name, definition) ==
  IF name \in DOMAIN s.m_prepared
  THEN IF definition # s.m_prepared[name].definition
       THEN IF name # "" THEN Throw(s, "argument_error")
            ELSE [s EXCEPT !.m_prepared[name] = prepared_def(definition)]
       ELSE same_definition(s, name)
  ELSE [s EXCEPT !.m_prepared = Assigned(@, name, prepared_def(definition))]

unprepare(s, name) ==
  IF name \notin DOMAIN s.m_prepared THEN s
  ELSE Try(IF s.m_prepared[name].registered
           THEN Exec(s, Stmt("DEALLOCATE", name, ""), 0)
           ELSE s, LAMBDA s1 :
       [s1 EXCEPT !.m_prepared = Erased(@, name)])

\* The test of the registered flag in register_prepared, and
\* register_prepared without it.
unregistered_Always(def) == TRUE

unregistered(def) == ~def.registered

register_prepared(s, name) ==
  Try(activate(s), LAMBDA s1 :
  IF name \notin DOMAIN s1.m_prepared THEN Throw(s1, "argument_error")
  ELSE IF unregistered(s1.m_prepared[name])
       THEN Bind(PQprepare(s1, name, s1.m_prepared[name].definition), LAMBDA s2 :
            Try(check_result(s2, s2.ret), LAMBDA s3 :
            [s3 EXCEPT !.m_prepared[name].registered = (name # "")]))
       ELSE s1)

prepared_exec(s, statement) ==
  Try(register_prepared(s, statement), LAMBDA s1 :
  Try(activate(s1), LAMBDA s2 :
  Bind(PQexecPrepared(s2, statement), LAMBDA s3 :
  Try(check_result(s3, s3.ret), LAMBDA s4 :
  [get_notifs(s4) EXCEPT !.ret = s3.ret]))))

----------------------------------------------------------------------------
(* connection_base: session variables and receivers *)

RawSetVar(s, Var, Value) == Exec(s, Stmt("SET", Var, Value), 0)

\* set_variable recording the value whether or not the SET went through.
set_variable_AlwaysRecords(s, Var, Value) ==
  IF s.m_Trans
  THEN Logged(s, "transaction_base::set_variable", <<Stmt("SET", Var, Value)>>)
  ELSE Bind(IF is_open(s) THEN RawSetVar(s, Var, Value) ELSE s, LAMBDA s1 :
       [s1 EXCEPT !.m_Vars = Assigned(@, Var, Value)])

set_variable(s, Var, Value) ==
  IF s.m_Trans
  THEN Logged(s, "transaction_base::set_variable", <<Stmt("SET", Var, Value)>>)
  ELSE Try(IF is_open(s) THEN RawSetVar(s, Var, Value) ELSE s, LAMBDA s1 :
       [s1 EXCEPT !.m_Vars = Assigned(@, Var, Value)])

\* receiver_list::value_type(T->channel(), T)
value_type(T) == [first |-> channel(T), second |-> T]

\* Where the entries of channel ch begin in the sorted sequence.
lower_bound(receivers, ch) ==
  1 + Cardinality({k \in DOMAIN receivers : StrRank(receivers[k].first) < StrRank(ch)})

InsertAt(seq, k, e) == SubSeq(seq, 1, k - 1) \o <<e>> \o SubSeq(seq, k, Len(seq))
EraseAt(seq, k) == SubSeq(seq, 1, k - 1) \o SubSeq(seq, k + 1, Len(seq))

\* The LISTEN of add_receiver; a broken connection is swallowed.
add_receiver_listen(s, T) ==
  Bind(PQexec(s, Stmt("LISTEN", channel(T), "")), LAMBDA s1 :
  Bind(check_result(s1, s1.ret), LAMBDA s2 :
  IF s2.exc = "broken_connection" THEN [s2 EXCEPT !.exc = NoExc] ELSE s2))

\* Both insertions put the entry where the entries of its channel begin:
\* insert(NewVal) of a channel that has none, and insert(p, NewVal) with
\* the hint p that find() gave.
add_receiver(s, T) ==
  IF equal_range(s.m_receivers, channel(T)) = <<>>
  THEN Try(IF is_open(s) THEN add_receiver_listen(s, T) ELSE s, LAMBDA s1 :
       [s1 EXCEPT !.m_receivers =
          InsertAt(@, lower_bound(@, channel(T)), value_type(T))])
  ELSE [s EXCEPT !.m_receivers =
          InsertAt(@, lower_bound(@, channel(T)), value_type(T))]

\* find(R.first, R.second, E): the first entry equal to E, 0 for R.second.
find(receivers, E) ==
  IF \E k \in DOMAIN receivers : receivers[k] = E
  THEN CHOOSE k \in DOMAIN receivers :
         receivers[k] = E /\ \A j \in 1..(k - 1) : receivers[j] # E
  ELSE 0

\* The flag gone of remove_receiver, and the same without the test that
\* the entry is the only one of its channel.
gone_AnyEntry(s, T) == s.m_Conn # NoConn

gone(s, T) ==
  s.m_Conn # NoConn /\ Len(equal_range(s.m_receivers, channel(T))) = 1

\* The else branch of remove_receiver with the statements in the other
\* order: the UNLISTEN first, the erasure after it.
erase_and_unlisten_Late(s, T) ==
  Try(IF gone(s, T) THEN Exec(s, Stmt("UNLISTEN", channel(T), ""), 0) ELSE s, LAMBDA s1 :
  [s1 EXCEPT !.m_receivers = EraseAt(@, find(@, value_type(T)))])

\* The else branch of remove_receiver: the entry is erased, then UNLISTEN
\* is executed when the entry was the last of its channel.
erase_and_unlisten(s, T) ==
  Bind([s EXCEPT !.m_receivers = EraseAt(@, find(@, value_type(T)))], LAMBDA s1 :
  IF gone(s, T) THEN Exec(s1, Stmt("UNLISTEN", channel(T), ""), 0) ELSE s1)

\* remove_receiver is noexcept: what is thrown inside ends as a notice.
remove_receiver(s, T) ==
  IF find(s.m_receivers, value_type(T)) = 0 THEN process_notice(s)
  ELSE Bind(erase_and_unlisten(s, T), LAMBDA s1 :
       IF s1.exc # NoExc THEN process_notice([s1 EXCEPT !.exc = NoExc]) ELSE s1)

----------------------------------------------------------------------------
(* connection_base: notices *)

\* sizeof(buf) and separator in process_notice(const char[]).
BufSize == 1007
separator == <<"[", ".", ".", ".", "]", NL>>

\* A char array before anything is written to it.
Uninitialised(size) == [i \in 1..size |-> "?"]

\* strcpy(&buf[pos], str): the characters of str and the NUL after them.
strcpy(buf, pos, str) ==
  [i \in DOMAIN buf |->
     IF i - 1 >= pos /\ i - 1 < pos + Len(str) THEN str[i - pos]
     ELSE IF i - 1 = pos + Len(str) THEN NUL
     ELSE buf[i]]

\* memcpy(buf, &msg[from], n)
memcpy(buf, msg, from, n) ==
  [i \in DOMAIN buf |-> IF i <= n THEN msg[from + i] ELSE buf[i]]

\* strlen: the index of the first NUL at or after i, or one past the end.
RECURSIVE strlen(_, _)
strlen(Buf, i) ==
  IF i > Len(Buf) \/ Buf[i] = NUL THEN i ELSE strlen(Buf, i + 1)

\* A char array read as a C string: its characters before the first NUL.
CString(Buf) == SubSeq(Buf, 1, strlen(Buf, 1) - 1)

\* The message is handed to the chain of error handlers, unless it is empty.
process_notice_raw(s, msg) ==
  IF msg = <<>> THEN s ELSE Logged(s, "process_notice_raw", msg)

\* process_notice(const std::string &): appending the newline may throw (the
\* environment answers "reject").
process_notice_string(s, msg) ==
  IF msg[Len(msg)] = NL THEN process_notice_raw(s, msg)
  ELSE IF Answer(s) = "reject"
       THEN Bind(process_notice_raw(Consumed(s), msg), LAMBDA s1 :
            process_notice_raw(s1, <<NL>>))
       ELSE process_notice_raw(Consumed(s), Append(msg, NL))

\* What is left of the message for the last chunk, and the same one short
\* where more than one byte is left.
remaining_bytes_Short(len, written) ==
  IF len - written > 1 THEN len - written - 1 ELSE len - written

remaining_bytes(len, written) == len - written

\* The last chunk: the bytes that remain, and a newline unless there is one.
LastChunk(s, msg, buf, written, bytes) ==
  Bind(memcpy(buf, msg, written, bytes), LAMBDA buf1 :
  process_notice_raw(s, CString(strcpy(buf1, bytes,
                                       IF buf1[bytes] = NL THEN <<>> ELSE <<NL>>))))

\* The loop over all chunks but the last, each filling the buffer.
RECURSIVE Chunks(_, _, _, _, _)
Chunks(s, msg, buf, written, bytes) ==
  IF written + bytes < Len(msg)
  THEN Bind(memcpy(buf, msg, written, bytes), LAMBDA buf1 :
       Chunks(process_notice_raw(s, CString(buf1)), msg, buf1, written + bytes, bytes))
  ELSE LastChunk(s, msg, buf, written, remaining_bytes(Len(msg), written))

\* process_notice(const char[]): constructing the std::string may throw
\* (the environment answers "reject").
process_notice_chars(s, msg) ==
  IF Len(msg) = 0 THEN s
  ELSE IF msg[Len(msg)] = NL THEN process_notice_raw(s, msg)
  ELSE IF Answer(s) = "reject"
       THEN Chunks(Consumed(s), msg,
                   strcpy(Uninitialised(BufSize), BufSize - (Len(separator) + 1) - 1, separator),
                   0, BufSize - (Len(separator) + 1) - 1)
       ELSE process_notice_string(Consumed(s), msg)

----------------------------------------------------------------------------
(* COPY: libpq and the server *)

\* The rows of a COPY stream in text format: a row ends at its newline.
RECURSIVE SplitRows(_, _)
SplitRows(data, row) ==
  IF data = <<>> THEN (IF row = <<>> THEN <<>> ELSE <<row>>)
  ELSE IF Head(data) = NL THEN <<row>> \o SplitRows(Tail(data), <<>>)
  ELSE SplitRows(Tail(data), Append(row, Head(data)))

\* PQputCopyData: 1 when the bytes are queued for the server, -1 otherwise.
PQputCopyData(s, L) ==
  LoggedResult(
    IF Status(s) # "CONNECTION_OK" \/ s.srvCopy.mode # "in"
    THEN [s EXCEPT !.ret = "-1"]
    ELSE CASE Answer(s) = "ok" ->
                [Consumed(s) EXCEPT !.ret = "1", !.srvCopy.data = @ \o L]
           [] Answer(s) = "reject" -> [Consumed(s) EXCEPT !.ret = "-1"]
           [] OTHER -> SessionLost([Consumed(s) EXCEPT !.m_Conn = ConnBad, !.ret = "-1"]),
    "PQputCopyData", <<>>)

\* PQendcopy: the COPY is given up.
PQendcopy(s) ==
  Logged([s EXCEPT !.srvCopy.mode = "idle", !.srvCopy.data = <<>>, !.srvCopy.out = <<>>],
         "PQendcopy", <<>>)

\* PQputCopyEnd: 1 when the end of the data is sent, upon which the server
\* stores the rows it has received; -1 otherwise.
PQputCopyEnd(s) ==
  LoggedResult(
    IF Status(s) # "CONNECTION_OK" \/ s.srvCopy.mode # "in"
    THEN [s EXCEPT !.ret = "-1"]
    ELSE CASE Answer(s) = "ok" ->
                [Consumed(s) EXCEPT !.ret = "1", !.srvCopy.mode = "idle",
                                    !.srvCopy.table = SplitRows(s.srvCopy.data, <<>>),
                                    !.srvCopy.source = s.srvCopy.written,
                                    !.srvCopy.data = <<>>]
           [] Answer(s) = "reject" ->
                [Consumed(s) EXCEPT !.ret = "-1", !.srvCopy.mode = "idle",
                                    !.srvCopy.data = <<>>]
           [] OTHER -> SessionLost([Consumed(s) EXCEPT !.m_Conn = ConnBad, !.ret = "-1"]),
    "PQputCopyEnd", <<>>)

\* PQgetCopyData, not asynchronous: a row with its newline in Buf, -1 when
\* the COPY is done, -2 on error.
PQgetCopyData(s) ==
  LoggedResult(
    IF Status(s) # "CONNECTION_OK" \/ s.srvCopy.mode # "out"
    THEN [s EXCEPT !.ret = "-2"]
    ELSE CASE Answer(s) = "ok" ->
                IF s.srvCopy.out = <<>>
                THEN [Consumed(s) EXCEPT !.ret = "-1", !.srvCopy.mode = "idle"]
                ELSE [Consumed(s) EXCEPT !.ret = "row",
                                         !.Buf = Append(Head(s.srvCopy.out), NL),
                                         !.srvCopy.out = Tail(@)]
           [] Answer(s) = "reject" ->
                [Consumed(s) EXCEPT !.ret = "-2", !.srvCopy.mode = "idle",
                                    !.srvCopy.out = <<>>]
           [] OTHER -> SessionLost([Consumed(s) EXCEPT !.m_Conn = ConnBad, !.ret = "-2"]),
    "PQgetCopyData", <<>>)

\* PQgetResult after a COPY: the result of the command.
PQgetResult(s) ==
  LoggedResult(
    IF Status(s) # "CONNECTION_OK" THEN [s EXCEPT !.ret = "null"]
    ELSE CASE Answer(s) = "ok" -> [Consumed(s) EXCEPT !.ret = "ok"]
           [] Answer(s) = "reject" -> [Consumed(s) EXCEPT !.ret = "error"]
           [] OTHER -> SessionLost([Consumed(s) EXCEPT !.m_Conn = ConnBad, !.ret = "null"]),
    "PQgetResult", <<>>)

----------------------------------------------------------------------------
(* connection_base: COPY *)

\* Line and Result are what ReadCopyLine hands back: Line goes to
\* srvCopy.got, Result to ret.
ReadCopyLine(s) ==
  IF ~is_open(s) THEN Throw(s, "internal_error")
  ELSE Bind(PQgetCopyData(s), LAMBDA s1 :
       CASE s1.ret = "-2" -> Throw(s1, "failure")
         [] s1.ret = "-1" ->
              Bind(PQgetResult(s1), LAMBDA s2 :
              Try(IF s2.ret # "null" THEN check_result(s2, s2.ret) ELSE s2, LAMBDA s3 :
              [s3 EXCEPT !.ret = "false"]))
         [] s1.ret = "0" -> Throw(s1, "internal_error")
         [] OTHER ->
              [s1 EXCEPT !.ret = "true", !.srvCopy.got = Append(@, CString(s1.Buf))])

WriteCopyLine(s, Line) ==
  IF ~is_open(s) THEN Throw(s, "internal_error")
  ELSE Bind(PQputCopyData(s, Append(Line, NL)), LAMBDA s1 :
       IF s1.ret # "1" THEN Throw(PQendcopy(s1), "failure")
       ELSE [s1 EXCEPT !.srvCopy.written = Append(@, Line)])

EndCopyWrite(s) ==
  Bind(PQputCopyEnd(s), LAMBDA s1 :
  CASE s1.ret = "-1" -> Throw(s1, "failure")
    [] s1.ret = "0" -> Throw(s1, "internal_error")
    [] s1.ret = "1" -> Bind(PQgetResult(s1), LAMBDA s2 : check_result(s2, s2.ret))
    [] OTHER -> Throw(s1, "internal_error"))

----------------------------------------------------------------------------
(* internal::reactivation_avoidance_exemption *)

\* The constructor: the counter and is_open() are kept, the counter cleared.
exemption_enter(s) ==
  [s EXCEPT !.exemption = [active |-> TRUE,
                           m_count |-> s.m_reactivation_avoidance,
                           m_open |-> is_open(s)],
            !.m_reactivation_avoidance = 0]

\* The test of the destructor before it deactivates, and the same without
\* regard for the counter that was kept.
exemption_reopened_AnyCount(s) == ~s.exemption.m_open

exemption_reopened(s) == s.exemption.m_count # 0 /\ ~s.exemption.m_open

\* The destructor: what deactivate throws leaves it before add_counter.
exemption_exit(s) ==
  Bind(IF exemption_reopened(s) THEN deactivate(s) ELSE s, LAMBDA s1 :
       IF s1.exc # NoExc THEN [s1 EXCEPT !.exemption = NoExemption]
       ELSE [s1 EXCEPT !.m_reactivation_avoidance = @ + s.exemption.m_count,
                       !.exemption = NoExemption])

----------------------------------------------------------------------------
(* The initial state: connection_base::connection_base *)

Init ==
  /\ m_Conn = NoConn
  /\ m_Completed = FALSE
  /\ m_inhibit_reactivation = FALSE
  /\ m_reactivation_avoidance = 0
  /\ m_caps = {}
  /\ m_Trans = FALSE
  /\ m_Vars = EmptyMap
  /\ m_receivers = <<>>
  /\ m_prepared = EmptyMap
  /\ srvListen = {}
  /\ srvPrepared = {}
  /\ notifs = <<>>
  /\ m_errorhandlers = <<>>
  /\ exemption = NoExemption
  /\ srvCopy = NoCopy
  /\ op = OpRec("connection_base", "", "", 0)
  /\ log = <<>>
  /\ exc = NoExc

----------------------------------------------------------------------------
(* Actions: one call of a member function, or one act of the environment *)

Call_activate ==
  \E o \in Oracles : Return(activate(Self(o)), OpRec("activate", "", "", 0))

Call_deactivate ==
  Return(deactivate(Self(<<>>)), OpRec("deactivate", "", "", 0))

Call_Reset ==
  \E o \in Oracles : Return(Reset(Self(o)), OpRec("Reset", "", "", 0))

Call_simulate_failure ==
  Return(simulate_failure(Self(<<>>)), OpRec("simulate_failure", "", "", 0))

Call_close ==
  Return(close(Self(<<>>)), OpRec("close", "", "", 0))

\* Collaborators raise the counter when they enter a state that a reconnect
\* cannot restore and lower it, never below zero, when they leave it.  The
\* debt, with what an exemption in scope keeps aside, stays within MaxDebt.
Call_add_reactivation_avoidance_count ==
  \E n \in {-1, 1} :
    /\ m_reactivation_avoidance + n >= 0
    /\ m_reactivation_avoidance + n + exemption.m_count <= MaxDebt
    /\ Return(add_reactivation_avoidance_count(Self(<<>>), n),
              OpRec("add_reactivation_avoidance_count", "", "", n))

Call_RegisterTransaction ==
  /\ ~m_Trans
  /\ Return(RegisterTransaction(Self(<<>>)), OpRec("RegisterTransaction", "", "", 0))

Call_UnregisterTransaction ==
  /\ m_Trans
  /\ Return(UnregisterTransaction(Self(<<>>)), OpRec("UnregisterTransaction", "", "", 0))

\* The transport is lost between two calls: PQstatus turns CONNECTION_BAD.
Drop ==
  /\ Status(Self(<<>>)) = "CONNECTION_OK"
  /\ Return(SessionLost([Self(<<>>) EXCEPT !.m_Conn = ConnBad]), OpRec("Drop", "", "", 0))

----------------------------------------------------------------------------
(* The life cycle of the connection *)

NextLife ==
  \/ Call_activate
  \/ Call_deactivate
  \/ Call_Reset
  \/ Call_simulate_failure
  \/ Call_close
  \/ Call_add_reactivation_avoidance_count
  \/ Call_RegisterTransaction
  \/ Call_UnregisterTransaction
  \/ Drop

SpecLife == Init /\ [][NextLife]_vars

IsOpen == is_open(Self(<<>>))

Reconnects == {"activate", "Reset"}

\* The primitives that establish, give up or re-establish the physical link.
LinkPrimitives == {"do_startconnect", "do_dropconnect", "do_disconnect", "PQreset"}

\* C2: in every state where the avoidance debt is greater than 0, activate
\* and Reset leave the handle, the completed flag, the capability set and
\* the debt as they were and call no connect or reset primitive.
C2_DebtLeavesConnectivity ==
  [][(op'.name \in Reconnects /\ m_reactivation_avoidance > 0)
       => /\ m_Conn' = m_Conn
          /\ m_Completed' = m_Completed
          /\ m_caps' = m_caps
          /\ m_reactivation_avoidance' = m_reactivation_avoidance
          /\ \A i \in DOMAIN log' : log'[i].ev \notin LinkPrimitives]_vars

\* Reset was called under debt on a handle whose transport is lost, the
\* case in which it would otherwise reconnect.
C2_Witness ==
  /\ op.name = "Reset"
  /\ m_reactivation_avoidance > 0
  /\ m_Conn = ConnBad
  /\ exc = NoExc

\* C3 as stated: while the debt is greater than 0, activate and Reset never
\* raise an error, reactivation inhibited or not.
C3_DebtNeverRaises ==
  [][(op'.name \in Reconnects /\ m_reactivation_avoidance > 0) => exc' = NoExc]_vars

\* C3 amended: while the debt is greater than 0 and reactivation is not
\* inhibited, activate and Reset return without an error; with reactivation
\* inhibited, Reset raises broken_connection whatever the debt, and so does
\* activate on a connection that is not open.
C3_DebtSilentUnlessInhibited ==
  [][(op'.name \in Reconnects /\ m_reactivation_avoidance > 0)
       => /\ ~m_inhibit_reactivation => exc' = NoExc
          /\ (m_inhibit_reactivation /\ (op'.name = "Reset" \/ ~IsOpen))
               => exc' = "broken_connection"]_vars

\* activate was called under debt, not inhibited, on a connection that was
\* not open, and returned in silence.
C3_Witness ==
  /\ op.name = "activate"
  /\ m_reactivation_avoidance > 0
  /\ ~m_inhibit_reactivation
  /\ ~IsOpen
  /\ exc = NoExc

----------------------------------------------------------------------------
(* Statements with retries *)

Call_Exec ==
  \E q \in Queries, n \in 0..MaxRetries, o \in Oracles :
    Return(Exec(Self(o), Stmt("QUERY", q, ""), n), OpRec("Exec", q, "", n))

NextExec ==
  \/ Call_Exec
  \/ Call_deactivate
  \/ Call_simulate_failure
  \/ Call_close
  \/ Call_add_reactivation_avoidance_count
  \/ Drop

SpecExec == Init /\ [][NextExec]_vars

\* The places in the log of the calls named ev.
Calls(ev) == {i \in DOMAIN log : log[i].ev = ev}

\* C4: Exec submits the query again only after a submission that handed
\* back no result and left the connection not open; when the connection is
\* still open after the first submission (the statement failed at the SQL
\* level), the query is submitted once and Reset is not called, whatever
\* the value of Retries.
C4_RetryOnlyWhenNotOpen ==
  op.name = "Exec" =>
    LET subs == Calls("PQexec")
    IN  /\ \A i \in subs, j \in subs :
             (i < j /\ ~\E k \in subs : i < k /\ k < j)
               => log[i].ret = "null" /\ ~log[i].open
        /\ \A i \in subs :
             ((\A k \in subs : i <= k) /\ log[i].open)
               => Cardinality(subs) = 1 /\ Calls("Reset") = {}

\* Exec with Retries > 0 submitted a statement that the server rejected on
\* a healthy connection, and left with the SQL error after one submission.
C4_Witness ==
  /\ op.name = "Exec"
  /\ op.n > 0
  /\ exc = "sql_error"
  /\ \E i \in Calls("PQexec") : log[i].ret = "error" /\ log[i].open
  /\ Cardinality(Calls("PQexec")) = 1

\* C5: Exec with Retries = n calls Reset at most n times and submits the
\* query at most n + 1 times; when k <= n submissions are lost with the
\* transport and the next one succeeds on a connection that is_open()
\* reports healthy, with no further loss of the transport, Exec returns
\* that result after exactly k calls of Reset.
C5_RetryBudget ==
  op.name = "Exec" =>
    LET subs == Calls("PQexec")
        lost == {i \in subs : log[i].ret = "null"}
    IN  /\ Cardinality(Calls("Reset")) <= op.n
        /\ Cardinality(subs) <= op.n + 1
        /\ (\E i \in subs : log[i].ret = "ok" /\ log[i].open /\ lost = subs \ {i})
             => /\ Cardinality(Calls("Reset")) = Cardinality(lost)
                /\ Cardinality(lost) <= op.n
                /\ (\A i \in Calls("PQconsumeInput") : log[i].ret = "ok") => exc = NoExc

\* Exec with Retries = 2 lost the transport twice, called Reset twice and
\* returned the result of the third submission.
C5_Witness ==
  /\ op.name = "Exec"
  /\ op.n = 2
  /\ Cardinality(Calls("Reset")) = 2
  /\ Cardinality({i \in Calls("PQexec") : log[i].ret = "null"}) = 2
  /\ Cardinality({i \in Calls("PQexec") : log[i].ret = "ok"}) = 1
  /\ exc = NoExc

----------------------------------------------------------------------------
(* Prepared statements *)

Call_prepare ==
  \E name \in StmtNames, definition \in Definitions :
    Return(prepare(Self(<<>>), name, definition), OpRec("prepare", name, definition, 0))

Call_unprepare ==
  \E name \in StmtNames, o \in Oracles :
    Return(unprepare(Self(o), name), OpRec("unprepare", name, "", 0))

Call_register_prepared ==
  \E name \in StmtNames, o \in Oracles :
    Return(register_prepared(Self(o), name), OpRec("register_prepared", name, "", 0))

Call_prepared_exec ==
  \E name \in StmtNames, o \in Oracles :
    Return(prepared_exec(Self(o), name), OpRec("prepared_exec", name, "", 0))

NextPrep ==
  \/ Call_prepare
  \/ Call_unprepare
  \/ Call_register_prepared
  \/ Call_prepared_exec
  \/ Call_activate
  \/ Call_Reset
  \/ Call_deactivate
  \/ Drop

SpecPrep == Init /\ [][NextPrep]_vars

\* C6: prepare of a declared non-empty name with another definition raises
\* argument_error and leaves the registry as it was; prepare of the declared
\* anonymous name with another definition raises nothing, replaces the
\* definition and clears the registered flag.
C6_Redefinition ==
  [][(/\ op'.name = "prepare"
      /\ op'.a \in DOMAIN m_prepared
      /\ m_prepared[op'.a].definition # op'.b)
       => IF op'.a # ""
          THEN exc' = "argument_error" /\ m_prepared' = m_prepared
          ELSE /\ exc' = NoExc
               /\ m_prepared' = Assigned(m_prepared, "", prepared_def(op'.b))]_vars

\* prepare was refused for a named statement that is registered, with a
\* definition other than the one the registry holds.
C6_Witness ==
  /\ op.name = "prepare"
  /\ op.a = "p"
  /\ exc = "argument_error"
  /\ "p" \in DOMAIN m_prepared
  /\ m_prepared["p"].definition # op.b
  /\ m_prepared["p"].registered

\* The session behind the handle holds the statement and the call starts on
\* an open connection, so that it reconnects nothing.
RegisteredHere(name) == IsOpen /\ name \in srvPrepared

\* C7 as stated: for every declared name, the anonymous one included,
\* register_prepared on a name that the session behind the open handle holds
\* already sends no registration request.
C7_RegistersOnceAnyName ==
  [][(/\ op'.name = "register_prepared"
      /\ op'.a \in DOMAIN m_prepared
      /\ RegisteredHere(op'.a))
       => \A i \in DOMAIN log' : log'[i].ev # "PQprepare"]_vars

\* C7 amended: for every declared name other than the anonymous one,
\* register_prepared whose activation does not fail sends exactly one
\* registration request when the session behind the handle does not hold
\* the statement, and none when it does; for the anonymous statement every
\* such call sends exactly one.
C7_RegistersOnceNamed ==
  [][(op'.name = "register_prepared" /\ op'.a \in DOMAIN m_prepared)
       => LET sent == {i \in DOMAIN log' : log'[i].ev = "PQprepare"}
          IN  /\ (op'.a # "" /\ RegisteredHere(op'.a)) => sent = {}
              /\ (exc' \in {NoExc, "sql_error"} /\ ~(op'.a # "" /\ RegisteredHere(op'.a)))
                   => Cardinality(sent) = 1]_vars

\* register_prepared returned on an open connection for a named statement
\* that was registered before, having sent nothing.
C7_Witness ==
  /\ op.name = "register_prepared"
  /\ op.a = "p"
  /\ exc = NoExc
  /\ log = <<>>
  /\ "p" \in srvPrepared
  /\ m_prepared["p"].registered

Reconnected(l) == \E i \in DOMAIN l : l[i].ev \in {"do_startconnect", "PQreset"}

\* C8: after every successful reconnect by activate or Reset every entry of
\* the registry has its registered flag false and the definition it had.
C8_ReconnectForgetsRegistration ==
  [][(op'.name \in Reconnects /\ exc' = NoExc /\ Reconnected(log'))
       => /\ DOMAIN m_prepared' = DOMAIN m_prepared
          /\ \A n \in DOMAIN m_prepared :
               /\ ~m_prepared'[n].registered
               /\ m_prepared'[n].definition = m_prepared[n].definition]_vars

\* Reset has re-established the session and the registry holds a statement.
C8_Witness ==
  /\ op.name = "Reset"
  /\ exc = NoExc
  /\ Reconnected(log)
  /\ IsOpen
  /\ "p" \in DOMAIN m_prepared
  /\ ~m_prepared["p"].registered

----------------------------------------------------------------------------
(* Session variables, receivers and notifications *)

Call_set_variable ==
  \E Var \in VarNames, Value \in VarValues, o \in ListenOracles :
    Return(set_variable(Self(o), Var, Value), OpRec("set_variable", Var, Value, 0))

Call_add_receiver ==
  \E T \in Listeners, o \in ListenOracles :
    /\ Len(m_receivers) < MaxReceivers
    /\ Return(add_receiver(Self(o), T), OpRec("add_receiver", T, "", 0))

Call_remove_receiver ==
  \E T \in Listeners, o \in ListenOracles :
    Return(remove_receiver(Self(o), T), OpRec("remove_receiver", T, "", 0))

Call_get_notifs ==
  \E o \in ListenOracles :
    Return(get_notifs(Self(o)), OpRec("get_notifs", "", "", 0))

\* The server sends a notification on a channel its session listens on;
\* libpq holds it until get_notifs asks for it.
Arrives(most) ==
  \E ch \in srvListen :
    /\ Status(Self(<<>>)) = "CONNECTION_OK"
    /\ Len(notifs) < most
    /\ Return([Self(<<>>) EXCEPT !.notifs = Append(@, ch)], OpRec("Notify", ch, "", 0))

Notify == Arrives(MaxNotifs)

NotifyBurst == Arrives(MaxBurst)

NextListen ==
  \/ Call_add_receiver
  \/ Call_remove_receiver
  \/ Call_get_notifs
  \/ Notify
  \/ Call_activate
  \/ Call_deactivate
  \/ Call_add_reactivation_avoidance_count
  \/ Drop

SpecListen == Init /\ [][NextListen]_vars

NextRestore ==
  \/ Call_set_variable
  \/ Call_add_receiver
  \/ Call_remove_receiver
  \/ Call_activate
  \/ Call_Reset
  \/ Call_deactivate
  \/ Drop

SpecRestore == Init /\ [][NextRestore]_vars

\* The channels that have an entry in a receiver list.
ChannelsOf(receivers) == {receivers[k].first : k \in DOMAIN receivers}

\* The positions of a statement in a batch.
Occurrences(batch, stmt) == {j \in DOMAIN batch : batch[j] = stmt}

\* C1: when a transport drop is followed by a successful Reset, the
\* reconnect sends exactly one restore request, which holds exactly one
\* LISTEN for every distinct channel that has a receiver and exactly one SET
\* for every session variable, and nothing else; it sends no restore
\* request when there are neither receivers nor session variables.
C1_RestoreBatch ==
  [][(op.name = "Drop" /\ op'.name = "Reset" /\ exc' = NoExc /\ IsOpen')
       => LET sent == {i \in DOMAIN log' : log'[i].ev = "PQsendQuery"} IN
          IF m_receivers = <<>> /\ DOMAIN m_Vars = {}
          THEN sent = {}
          ELSE /\ Cardinality(sent) = 1
               /\ \A i \in sent :
                    /\ \A ch \in ChannelsOf(m_receivers) :
                         Cardinality(Occurrences(log'[i].q, Stmt("LISTEN", ch, ""))) = 1
                    /\ \A v \in DOMAIN m_Vars :
                         Cardinality(Occurrences(log'[i].q, Stmt("SET", v, m_Vars[v]))) = 1
                    /\ Len(log'[i].q) =
                         Cardinality(ChannelsOf(m_receivers)) + Cardinality(DOMAIN m_Vars)]_vars

----------------------------------------------------------------------------
(* Receivers *)

\* The UNLISTEN statements for channel ch among the calls of a log.
UnlistensSent(l, ch) ==
  {i \in DOMAIN l : l[i].ev = "PQexec" /\ l[i].q = <<Stmt("UNLISTEN", ch, "")>>}

Registered(T) == find(m_receivers, value_type(T)) # 0

LastOfChannel(T) ==
  Registered(T) /\ Len(equal_range(m_receivers, channel(T))) = 1

\* C9, as stated: remove_receiver sends exactly one UNLISTEN for the
\* channel when it removes the last remaining receiver of that channel, and
\* sends no statement when other receivers of the channel remain or the
\* receiver is not registered.
C9_UnlistenOnLast ==
  [][op'.name = "remove_receiver"
       => IF LastOfChannel(op'.a)
          THEN /\ Cardinality(UnlistensSent(log', channel(op'.a))) = 1
               /\ {i \in DOMAIN log' : log'[i].ev = "PQexec"}
                    = UnlistensSent(log', channel(op'.a))
          ELSE {i \in DOMAIN log' : log'[i].ev = "PQexec"} = {}]_vars

\* C9, amended: remove_receiver issues exactly one UNLISTEN for the channel
\* when it removes the last remaining receiver of that channel while there
\* is a physical handle and the activation before the statement does not
\* fail, which is always so when the connection is open; when the
\* activation fails it issues none and reports a notice; it issues no
\* statement when other receivers of the channel remain, when the receiver
\* is not registered, or when there is no physical handle.
C9_UnlistenOnLastWithHandle ==
  [][op'.name = "remove_receiver"
       => LET sent == UnlistensSent(log', channel(op'.a))
              execs == {i \in DOMAIN log' : log'[i].ev = "PQexec"}
          IN  /\ exc' = NoExc
              /\ (~LastOfChannel(op'.a) \/ m_Conn = NoConn) => execs = {}
              /\ (LastOfChannel(op'.a) /\ IsOpen)
                   => Cardinality(sent) = 1 /\ execs = sent
              /\ (LastOfChannel(op'.a) /\ m_Conn # NoConn /\ ~IsOpen)
                   => \/ Cardinality(sent) = 1 /\ execs = sent
                      \/ /\ execs = {}
                         /\ log' # <<>>
                         /\ log'[Len(log')].ev = "process_notice"]_vars

C9_Witness ==
  /\ op.name = "remove_receiver"
  /\ \E i \in UnlistensSent(log, channel(op.a)) : log[i].ret = "ok"
  /\ m_receivers # <<>>

\* C10: remove_receiver erases the entry before it executes UNLISTEN: no
\* receiver invoked during a call of remove_receiver, the drain of
\* notifications after the statement included, is the receiver being
\* removed, and whenever a receiver is invoked it is one that is still in
\* the list when the call is over.
C10_ErasedBeforeUnlisten ==
  /\ op.name = "remove_receiver"
       => \A i \in Calls("receiver") : log[i].q[1][2] # op.a
  /\ \A i \in Calls("receiver") :
       find(m_receivers, [first |-> log[i].q[1][1], second |-> log[i].q[1][2]]) # 0

\* A notification for the channel of the removed receiver is handed out by
\* the drain that follows a successful UNLISTEN.
C10_Witness ==
  /\ op.name = "remove_receiver"
  /\ \E i \in UnlistensSent(log, channel(op.a)) :
       /\ log[i].ret = "ok"
       /\ \E j \in Calls("PQnotifies") :
            j > i /\ log[j].q = <<Stmt(channel(op.a), "", "")>>

----------------------------------------------------------------------------
(* Notifications and transactions *)

NextNotify ==
  \/ Call_add_receiver
  \/ Call_get_notifs
  \/ NotifyBurst
  \/ Call_RegisterTransaction
  \/ Call_UnregisterTransaction
  \/ Call_activate
  \/ Drop

SpecNotify == Init /\ [][NextNotify]_vars

\* The receivers a dispatch of the queue N has to invoke, in order.
RECURSIVE ExpectedDeliveries(_, _)
ExpectedDeliveries(N, receivers) ==
  IF N = <<>> THEN <<>>
  ELSE equal_range(receivers, Head(N)) \o ExpectedDeliveries(Tail(N), receivers)

\* The receivers a log shows invoked, in order.
Invoked(l) == SelectSeq(l, LAMBDA x : x.ev = "receiver")

Deliveries(l) ==
  [i \in 1..Len(Invoked(l)) |->
     [first |-> Invoked(l)[i].q[1][1], second |-> Invoked(l)[i].q[1][2]]]

\* PQconsumeInput of the call succeeded.
InputConsumed(l) == \E i \in DOMAIN l : l[i].ev = "PQconsumeInput" /\ l[i].ret = "ok"

\* C11: while a transaction is registered get_notifs invokes no receiver and
\* leaves the queue of notifications as it is; with no transaction
\* registered and the connection open, a get_notifs whose input is consumed
\* empties the queue and invokes, for every queued notification in order,
\* every receiver of its channel.
C11_DeferredDuringTransaction ==
  [][op'.name = "get_notifs"
       => /\ m_Trans => (Invoked(log') = <<>> /\ notifs' = notifs)
          /\ (~m_Trans /\ IsOpen /\ InputConsumed(log'))
               => /\ notifs' = <<>>
                  /\ Deliveries(log') = ExpectedDeliveries(notifs, m_receivers)]_vars

\* A dispatch during a transaction has left a notification in the queue of
\* a connection that has a receiver for it.
C11_Witness ==
  /\ op.name = "get_notifs"
  /\ m_Trans
  /\ InputConsumed(log)
  /\ notifs # <<>>
  /\ equal_range(m_receivers, notifs[1]) # <<>>

\* C12: when a receiver throws during get_notifs the exception is reported
\* as a notice right after the receiver, no exception leaves get_notifs, and
\* every receiver of every queued notification is invoked all the same.
C12_ReceiverExceptionContained ==
  [][(op'.name = "get_notifs" /\ \E i \in DOMAIN log' : log'[i].ret = "throw")
       => /\ exc' = NoExc
          /\ notifs' = <<>>
          /\ Deliveries(log') = ExpectedDeliveries(notifs, m_receivers)
          /\ \A i \in DOMAIN log' :
               log'[i].ret = "throw"
                 => i < Len(log') /\ log'[i + 1].ev = "process_notice"]_vars

\* The first of two receivers threw and a receiver was invoked after it.
C12_Witness ==
  /\ op.name = "get_notifs"
  /\ \E i, j \in Calls("receiver") : i < j /\ log[i].ret = "throw"

----------------------------------------------------------------------------
(* Exemption scopes *)

Enter_exemption ==
  /\ ~exemption.active
  /\ Return(exemption_enter(Self(<<>>)), OpRec("reactivation_avoidance_exemption", "", "", 0))

Exit_exemption ==
  /\ exemption.active
  /\ Return(exemption_exit(Self(<<>>)), OpRec("~reactivation_avoidance_exemption", "", "", 0))

NextExempt ==
  \/ Enter_exemption
  \/ Exit_exemption
  \/ Call_activate
  \/ Call_deactivate
  \/ Call_add_reactivation_avoidance_count
  \/ Call_RegisterTransaction
  \/ Call_UnregisterTransaction
  \/ Drop

SpecExempt == Init /\ [][NextExempt]_vars

\* C13: whenever an exemption goes out of scope, the avoidance counter
\* afterwards is what it was when the exemption was constructed.
C13_DebtRestoredOnExit ==
  [][op'.name = "~reactivation_avoidance_exemption"
       => m_reactivation_avoidance' = exemption.m_count]_vars

\* The destructor of the exemption is running and the connection, which was
\* not open when the exemption was constructed, is open.
ExitReopened(call) ==
  /\ call.name = "~reactivation_avoidance_exemption"
  /\ ~exemption.m_open
  /\ IsOpen

----------------------------------------------------------------------------
(* Transactions and the physical handle *)

\* C15: while a transaction is registered, deactivate of a connection that
\* has a handle leaves with usage_error, and neither deactivate nor Reset
\* calls a primitive that gives up, drops or resets the physical connection
\* or changes the handle.
C15_NoTeardownInTransaction ==
  [][(m_Trans /\ op'.name \in {"deactivate", "Reset"})
       => /\ (op'.name = "deactivate" /\ m_Conn # NoConn) => exc' = "usage_error"
          /\ m_Conn' = m_Conn
          /\ \A i \in DOMAIN log' : log'[i].ev \notin LinkPrimitives]_vars

----------------------------------------------------------------------------
(* Closing the connection *)

Call_register_errorhandler ==
  \E handler \in Handlers :
    /\ Len(m_errorhandlers) < MaxHandlers
    /\ Return(register_errorhandler(Self(<<>>), handler),
              OpRec("register_errorhandler", handler, "", 0))

Call_unregister_errorhandler ==
  \E handler \in Handlers :
    Return(unregister_errorhandler(Self(<<>>), handler),
           OpRec("unregister_errorhandler", handler, "", 0))

NextClose ==
  \/ Call_close
  \/ Call_activate
  \/ Call_add_reactivation_avoidance_count
  \/ Call_RegisterTransaction
  \/ Call_UnregisterTransaction
  \/ Call_add_receiver
  \/ Call_register_errorhandler
  \/ Call_unregister_errorhandler
  \/ Drop

SpecClose == Init /\ [][NextClose]_vars

Reversed(seq) == [i \in 1..Len(seq) |-> seq[Len(seq) + 1 - i]]

\* The handlers a log shows unregistered, in order.
Unregistered(l) ==
  [i \in 1..Len(SelectSeq(l, LAMBDA x : x.ev = "errorhandler::unregister")) |->
     SelectSeq(l, LAMBDA x : x.ev = "errorhandler::unregister")[i].q[1][1]]

\* C16: close leaves with no exception from every state; after it the
\* avoidance counter is 0, the list of error handlers is empty, every handler
\* that was in it has been unregistered, the newest first, and there is no
\* physical handle and the connection is not open.
C16_CloseTearsDown ==
  [][op'.name = "close"
       => /\ exc' = NoExc
          /\ m_reactivation_avoidance' = 0
          /\ m_errorhandlers' = <<>>
          /\ Unregistered(log') = Reversed(m_errorhandlers)
          /\ m_Conn' = NoConn
          /\ ~IsOpen']_vars

\* close has run with a transaction registered, receivers outstanding and
\* two different handlers registered on a connection with a handle.
C16_Witness ==
  /\ op.name = "close"
  /\ Len(Unregistered(log)) = 2
  /\ Unregistered(log)[1] # Unregistered(log)[2]
  /\ Cardinality(Calls("process_notice")) = 2
  /\ Calls("do_disconnect") # {}

----------------------------------------------------------------------------
(* The capability set *)

\* C17: every call that leaves the connection without the physical handle
\* it had leaves the capability set empty, and every activate or Reset that
\* reconnects successfully leaves it fully populated.
C17_CapsFollowHandle ==
  [][/\ (m_Conn # NoConn /\ m_Conn' = NoConn) => m_caps' = {}
     /\ (op'.name \in Reconnects /\ exc' = NoExc /\ Reconnected(log') /\ IsOpen')
          => m_caps' = AllCaps]_vars

----------------------------------------------------------------------------
(* Session variables *)

NextVars ==
  \/ Call_set_variable
  \/ Call_activate
  \/ Call_deactivate
  \/ Call_RegisterTransaction
  \/ Call_UnregisterTransaction
  \/ Drop

SpecVars == Init /\ [][NextVars]_vars

\* The SET statements for Var among the calls of a log.
SetsSent(l, Var, Value) ==
  {i \in DOMAIN l : l[i].ev = "PQexec" /\ l[i].q = <<Stmt("SET", Var, Value)>>}

\* The call was handed to the transaction.
Delegated(l, Var, Value) ==
  l = <<Ev("transaction_base::set_variable", <<Stmt("SET", Var, Value)>>, "", l[1].open)>>

\* C18, as stated: with no transaction registered every set_variable(Var,
\* Value) leaves m_Vars[Var] = Value and the rest of m_Vars as it was,
\* whatever the state of the connection; with a transaction registered the
\* call goes to the transaction and m_Vars is unchanged.
C18_AlwaysRecorded ==
  [][op'.name = "set_variable"
       => IF m_Trans
          THEN m_Vars' = m_Vars /\ log' # <<>> /\ Delegated(log', op'.a, op'.b)
          ELSE m_Vars' = Assigned(m_Vars, op'.a, op'.b)]_vars

\* C18, amended: with no transaction registered, set_variable on a
\* connection that is not open sends nothing, raises nothing and records
\* Var -> Value; on an open connection it sends one SET and records
\* Var -> Value when the SET and the drain after it raise nothing, and
\* leaves m_Vars as it was when they raise; with a transaction registered
\* the call goes to the transaction and m_Vars is unchanged.
C18_RecordedUnlessSetFails ==
  [][op'.name = "set_variable"
       => CASE m_Trans ->
                 m_Vars' = m_Vars /\ log' # <<>> /\ Delegated(log', op'.a, op'.b)
            [] ~m_Trans /\ ~IsOpen ->
                 /\ m_Vars' = Assigned(m_Vars, op'.a, op'.b)
                 /\ exc' = NoExc
                 /\ log' = <<>>
            [] OTHER ->
                 /\ Cardinality(SetsSent(log', op'.a, op'.b)) = 1
                 /\ exc' = NoExc => m_Vars' = Assigned(m_Vars, op'.a, op'.b)
                 /\ exc' # NoExc => m_Vars' = m_Vars]_vars

\* A SET on an open connection failed and left a variable, which had a
\* value already, with that value.
C18_Witness ==
  /\ op.name = "set_variable"
  /\ exc # NoExc
  /\ SetsSent(log, op.a, op.b) # {}
  /\ op.a \in DOMAIN m_Vars
  /\ m_Vars[op.a] # op.b

----------------------------------------------------------------------------
(* COPY sessions *)

\* A collaborator starts a COPY by executing its statement.
Call_Exec_COPY ==
  \E direction \in {"FROM STDIN", "TO STDOUT"}, o \in ListenOracles :
    /\ srvCopy.mode = "idle"
    /\ Return(Exec(Self(o), Stmt("COPY", direction, ""), 0),
              OpRec("Exec", "COPY", direction, 0))

Call_WriteCopyLine ==
  \E Line \in Texts, o \in ListenOracles :
    /\ Len(srvCopy.written) < MaxCopyLines
    /\ Return(WriteCopyLine(Self(o), Line), OpRec("WriteCopyLine", "", "", 0))

Call_EndCopyWrite ==
  \E o \in ListenOracles :
    Return(EndCopyWrite(Self(o)), OpRec("EndCopyWrite", "", "", 0))

\* The result of ReadCopyLine is kept in op.b.
Call_ReadCopyLine ==
  \E o \in ListenOracles :
    Return(ReadCopyLine(Self(o)),
           OpRec("ReadCopyLine", "", ReadCopyLine(Self(o)).ret, 0))

NextCopy ==
  \/ Call_Exec_COPY
  \/ Call_WriteCopyLine
  \/ Call_EndCopyWrite
  \/ Call_ReadCopyLine
  \/ Call_activate
  \/ Drop

SpecCopy == Init /\ [][NextCopy]_vars

\* C19: when a read session reaches the end of the stream, ReadCopyLine has
\* handed back, in order, exactly the texts that were passed to
\* WriteCopyLine in the write session that filled the table.
C19_CopyRoundTrip ==
  (op.name = "ReadCopyLine" /\ exc = NoExc /\ op.b = "false")
    => srvCopy.got = srvCopy.source

----------------------------------------------------------------------------
(* Notices *)

\* A message of len bytes, each byte its own, with or without a newline
\* at its end.
Message(len, ending) ==
  [i \in 1..len |-> ToString(i)] \o (IF ending = "newline" THEN <<NL>> ELSE <<>>)

\* The message a notice is about to be processed for is held in op.
InitNotice ==
  /\ m_Conn = NoConn
  /\ m_Completed = FALSE
  /\ m_inhibit_reactivation = FALSE
  /\ m_reactivation_avoidance = 0
  /\ m_caps = {}
  /\ m_Trans = FALSE
  /\ m_Vars = EmptyMap
  /\ m_receivers = <<>>
  /\ m_prepared = EmptyMap
  /\ srvListen = {}
  /\ srvPrepared = {}
  /\ notifs = <<>>
  /\ m_errorhandlers = <<>>
  /\ exemption = NoExemption
  /\ srvCopy = NoCopy
  /\ \E len \in 0..MaxNoticeLen, ending \in {"newline", "none"} :
       op = OpRec("message", ending, "", len)
  /\ log = <<>>
  /\ exc = NoExc

\* The allocations of one call succeed or fail.
NoticeOracles == SeqsUpTo({"ok", "reject"}, 2)

\* The way a call takes through process_notice for these answers.
NoticePath(o) ==
  IF o # <<>> /\ o[1] = "reject" THEN "buffer"
  ELSE IF Len(o) = 2 /\ o[2] = "reject" THEN "string" ELSE "normal"

Call_process_notice ==
  /\ op.name = "message"
  /\ \E o \in NoticeOracles :
       Return(process_notice_chars(Self(o), Message(op.n, op.a)),
              OpRec("process_notice", op.a, NoticePath(o), op.n))

NextNotice == Call_process_notice

SpecNotice == InitNotice /\ [][NextNotice]_vars

RECURSIVE Concat(_)
Concat(chunks) ==
  IF chunks = <<>> THEN <<>> ELSE Head(chunks) \o Concat(Tail(chunks))

\* A chunk without what was added to it: the separator, or the newline.
Payload(chunk) ==
  IF Len(chunk) >= Len(separator)
     /\ SubSeq(chunk, Len(chunk) - Len(separator) + 1, Len(chunk)) = separator
  THEN SubSeq(chunk, 1, Len(chunk) - Len(separator))
  ELSE IF chunk # <<>> /\ chunk[Len(chunk)] = NL
       THEN SubSeq(chunk, 1, Len(chunk) - 1)
       ELSE chunk

Payloads == Concat([i \in 1..Len(log) |-> Payload(log[i].q)])

----------------------------------------------------------------------------
(* A failed activate *)

\* The errors SetupState raises that are no broken_connection.
SetupErrors == {"internal_error", "failure", "feature_not_supported"}

\* C21: after an activate that raised, the connection is not open.  When
\* reactivation was not inhibited the completed flag is clear; a
\* broken_connection leaves no handle behind, and any other error is the one
\* SetupState raised.
C21_FailedActivateNotOpen ==
  [][(op'.name = "activate" /\ exc' # NoExc)
       => /\ ~IsOpen'
          /\ ~m_inhibit_reactivation
               => /\ ~m_Completed'
                  /\ exc' = "broken_connection" => m_Conn' = NoConn
                  /\ exc' # "broken_connection" => exc' \in SetupErrors]_vars

\* activate reached a server whose capabilities cannot be read: the error is
\* rethrown, and the handle that stays is not reported as open.
C21_Witness ==
  /\ op.name = "activate"
  /\ exc = "feature_not_supported"
  /\ m_Conn = ConnOld
  /\ ~m_Completed
  /\ ~IsOpen

----------------------------------------------------------------------------
(* prepare with the definition the registry holds *)

\* prepare is called for a declared name with the definition it has.
SameDefinition ==
  /\ op'.name = "prepare"
  /\ op'.a \in DOMAIN m_prepared
  /\ m_prepared[op'.a].definition = op'.b

\* C22 as stated: prepare of a declared name with the same definition raises
\* nothing, leaves the definition as it is and leaves the registered flag
\* false.
C22_SameDefinitionForcesRegistration ==
  [][SameDefinition
       => /\ exc' = NoExc
          /\ m_prepared'[op'.a].definition = m_prepared[op'.a].definition
          /\ ~m_prepared'[op'.a].registered]_vars

\* C22 amended: prepare of a declared name with the same definition raises
\* nothing and leaves the registry as it is, registered flags included.
C22_SameDefinitionChangesNothing ==
  [][SameDefinition => exc' = NoExc /\ m_prepared' = m_prepared]_vars

\* prepare was called with the definition of a statement that is registered,
\* and the statement is registered still.
C22_Witness ==
  /\ op.name = "prepare"
  /\ op.a = "p"
  /\ exc = NoExc
  /\ "p" \in DOMAIN m_prepared
  /\ m_prepared["p"].definition = op.b
  /\ m_prepared["p"].registered
  /\ "p" \in srvPrepared

----------------------------------------------------------------------------
(* Logical state and the life cycle *)

\* The calls that record logical state, answered without a fault, and the
\* reconnecting calls with the faults of a handshake.
Record_set_variable ==
  \E Var \in VarNames, Value \in VarValues :
    Return(set_variable(Self(<<>>), Var, Value), OpRec("set_variable", Var, Value, 0))

Record_add_receiver ==
  \E T \in Listeners :
    /\ Len(m_receivers) < MaxReceivers
    /\ Return(add_receiver(Self(<<>>), T), OpRec("add_receiver", T, "", 0))

Record_remove_receiver ==
  \E T \in Listeners :
    Return(remove_receiver(Self(<<>>), T), OpRec("remove_receiver", T, "", 0))

Reconnect_activate ==
  \E o \in ConnectOracles : Return(activate(Self(o)), OpRec("activate", "", "", 0))

Reconnect_Reset ==
  \E o \in ConnectOracles : Return(Reset(Self(o)), OpRec("Reset", "", "", 0))

NextLogical ==
  \/ Record_set_variable
  \/ Record_add_receiver
  \/ Record_remove_receiver
  \/ Call_prepare
  \/ Reconnect_activate
  \/ Reconnect_Reset
  \/ Call_deactivate
  \/ Call_close
  \/ Call_simulate_failure
  \/ Drop

SpecLogical == Init /\ [][NextLogical]_vars

Lifecycle == {"activate", "deactivate", "Reset", "close", "simulate_failure", "Drop"}

\* The names and definitions of the prepared statements.
DefinitionsOf(prepared) == [n \in DOMAIN prepared |-> prepared[n].definition]

\* C23 as stated: m_receivers changes in add_receiver and remove_receiver
\* only, and no step of the life cycle, close included, changes m_Vars,
\* m_receivers or the definitions in m_prepared.
C23_LogicalStateOutlivesHandle ==
  [][/\ op'.name \notin {"add_receiver", "remove_receiver"}
          => m_receivers' = m_receivers
     /\ op'.name \in Lifecycle
          => /\ m_Vars' = m_Vars
             /\ DefinitionsOf(m_prepared') = DefinitionsOf(m_prepared)]_vars

\* C23 amended: the same of every call but close; close leaves m_Vars and
\* the definitions as they are and leaves no receiver.
C23_LogicalStateOutlivesHandleUntilClose ==
  [][/\ op'.name \notin {"add_receiver", "remove_receiver", "close"}
          => m_receivers' = m_receivers
     /\ op'.name = "close" => m_receivers' = <<>>
     /\ op'.name \in Lifecycle
          => /\ m_Vars' = m_Vars
             /\ DefinitionsOf(m_prepared') = DefinitionsOf(m_prepared)]_vars

\* A connect failed while a variable, a receiver and a statement were
\* recorded, and all three are recorded still.
C23_Witness ==
  /\ op.name \in Reconnects
  /\ exc = "broken_connection"
  /\ m_Conn = NoConn
  /\ ~m_inhibit_reactivation
  /\ m_receivers # <<>>
  /\ DOMAIN m_Vars # {}
  /\ DOMAIN m_prepared # {}

----------------------------------------------------------------------------
(* Inhibited reactivation *)

\* C24: while reactivation is inhibited, activate on a connection that is
\* not open and Reset raise broken_connection whatever the debt, call no
\* primitive of the link and leave the handle as it is; and every call but
\* close leaves reactivation inhibited.
C24_InhibitedUntilClose ==
  [][m_inhibit_reactivation
       => /\ ((op'.name = "activate" /\ ~IsOpen) \/ op'.name = "Reset")
               => /\ exc' = "broken_connection"
                  /\ \A i \in DOMAIN log' : log'[i].ev \notin LinkPrimitives
                  /\ m_Conn' = m_Conn
                  /\ ~IsOpen'
          /\ op'.name # "close" => m_inhibit_reactivation'
          /\ op'.name = "close" => ~m_inhibit_reactivation']_vars

\* Reset was refused under inhibition although there was debt.
C24_Witness ==
  /\ op.name = "Reset"
  /\ m_inhibit_reactivation
  /\ m_reactivation_avoidance > 0
  /\ m_Conn = NoConn
  /\ exc = "broken_connection"
  /\ log = <<>>

----------------------------------------------------------------------------
(* DEALLOCATE *)

\* The places in the log where DEALLOCATE of name went to the server.
Deallocations(l, name) ==
  {i \in DOMAIN l : l[i].ev = "PQexec" /\ l[i].q = <<Stmt("DEALLOCATE", name, "")>>}

\* C25: unprepare sends DEALLOCATE only when the call starts on an open
\* connection whose session holds the statement, so never to a session that
\* the activation inside its own Exec has just established; and unprepare of
\* a declared name ends with the entry erased, unless the DEALLOCATE of a
\* statement the session holds has failed.
C25_DeallocateOnlyRegistered ==
  [][(op'.name = "unprepare" /\ op'.a \in DOMAIN m_prepared)
       => /\ Deallocations(log', op'.a) # {} => RegisteredHere(op'.a)
          /\ ~(RegisteredHere(op'.a) /\ exc' # NoExc)
               => op'.a \notin DOMAIN m_prepared']_vars

----------------------------------------------------------------------------
(* Subscriptions of the session and receivers of the connection *)

\* Answers of an environment in which the server rejects nothing: a round
\* trip goes through or the transport is lost.
QuietOracles == SeqsUpTo({"ok", "drop"}, MaxListenFaults)

Quiet_add_receiver ==
  \E T \in Listeners, o \in QuietOracles :
    /\ Len(m_receivers) < MaxReceivers
    /\ Return(add_receiver(Self(o), T), OpRec("add_receiver", T, "", 0))

Quiet_remove_receiver ==
  \E T \in Listeners, o \in QuietOracles :
    Return(remove_receiver(Self(o), T), OpRec("remove_receiver", T, "", 0))

Quiet_activate ==
  \E o \in QuietOracles : Return(activate(Self(o)), OpRec("activate", "", "", 0))

Quiet_Reset ==
  \E o \in QuietOracles : Return(Reset(Self(o)), OpRec("Reset", "", "", 0))

NextSubscribe ==
  \/ Quiet_add_receiver
  \/ Quiet_remove_receiver
  \/ Quiet_activate
  \/ Quiet_Reset
  \/ Call_deactivate
  \/ Drop

SpecSubscribe == Init /\ [][NextSubscribe]_vars

\* C26: between calls, whenever the connection is open, the channels the
\* session listens on are the channels of the receivers, the channel with
\* the empty name included.
C26_SubscriptionsMatchReceivers ==
  IsOpen => srvListen = ChannelsOf(m_receivers)

=============================================================================
